---- MODULE Spec2Model ----
(***************************************************************************)
(* Model of the multi-model inference fallback path of pr-checker-v2:      *)
(*   callModelWithPrompt    (src/src/utils/openrouter-utils.js:156-292)   *)
(*   callModelWithFallbacks (src/src/utils/openrouter-utils.js:295-316)   *)
(*   saveResults, createOutputDir      (openrouter-utils.js:319-351)      *)
(*   analyzeWithOpenRouter             (src/src/lib/openrouter.js:15-90)  *)
(*   analyzeChanges                    (src/src/lib/prAnalyzer.js:3-27)   *)
(*   processPR, parallel-diagram version                                  *)
(* A behaviour follows one script: entry names the function it drives.     *)
(* The provider (OpenRouter) is the environment: for one orchestration it  *)
(* is a function from backend identifier to the HTTP response a request    *)
(* for that backend receives.                                              *)
(***************************************************************************)
EXTENDS Integers, Sequences, FiniteSets, TLC

\* ------------------------------------------------------------------ bounds
MaxFallbacks == 2      \* longest fallback list explored
MaxDelay == 2          \* largest retryDelay (seconds) a 429 body carries
MaxCalls == 2          \* calls of callModelWithFallbacks one script makes
MaxSaves == 2          \* calls of saveResults one script makes directly
MaxClock == 1          \* milliseconds that pass during one run of processPR

\* ------------------------------------------------------- program constants
DefaultDelay == 60     \* parseInt(...) || 60

\* ---------------------------------------------------------------- backends
\* Backend identifiers (provider/model form); FreeModels are the ones whose
\* identifier includes the ':free' marker.
Models == {"a/X", "b/Y:free"}

\* MODEL_FALLBACKS of models/models.js, the registry processPR uses
PRIMARY == "deepseek/deepseek-chat-v3-0324:free"
FALLBACKS ==
    <<"meta-llama/llama-3-8b-instruct:free",
      "mistralai/mistral-small-3.1-24b-instruct:free">>

FreeModels == {"b/Y:free", PRIMARY} \cup {FALLBACKS[i] : i \in 1..Len(FALLBACKS)}

includesFreeNever(model) == FALSE

includesFree(model) == model \in FreeModels

\* ------------------------------------------------------- provider responses
NoDelay == 0 - 1       \* the 429 body has no RetryInfo.retryDelay
NaNDelay == 0 - 2      \* retryDelay is a string parseInt cannot read

Resp(st, b, d, m, u) ==
    [status |-> st, body |-> b, retryDelay |-> d, model |-> m, usage |-> u]

\* status 0 stands for a fetch() that rejects (transport/network error).
Responses ==
    {Resp(0, "none", NoDelay, "", FALSE)}
    \cup {Resp(429, b, NoDelay, "", FALSE) : b \in {"badjson", "error"}}
    \cup {Resp(429, "retryinfo", d, "", FALSE) : d \in (0..MaxDelay) \cup {NaNDelay}}
    \cup {Resp(st, "error", NoDelay, "", FALSE) : st \in {402, 500}}
    \cup {Resp(200, b, NoDelay, "", FALSE) :
              b \in {"badjson", "nochoices", "nomessage", "nocontent"}}
    \cup {Resp(200, "content", NoDelay, m, u) : m \in {"", "a/X"}, u \in BOOLEAN}

okLenient(resp) == resp.status >= 200 /\ resp.status <= 499

\* response.ok of the fetch API: status in 200..299
ok(resp) == resp.status >= 200 /\ resp.status <= 299

\* ------------------------------------------------------ invocation outcomes
NoRetryAfter == 0 - 1  \* the returned object has no retryAfter property

Err(msg, about, n) == [msg |-> msg, about |-> about, n |-> n]
NoError == Err("", "", 0 - 1)

Failure(e, ra) ==
    [success |-> FALSE, content |-> "", error |-> e, retryAfter |-> ra,
     model |-> "", usage |-> FALSE]

\* const delaySeconds = parseInt(retryDelay.replace('s', '')) || 60
delaySeconds(retryDelay) ==
    IF retryDelay = NaNDelay \/ retryDelay = 0 THEN DefaultDelay ELSE retryDelay

\* The retryDelay the 429 branch extracts from the error body: null when the
\* body does not parse or carries no RetryInfo.
retryDelayOf(resp) ==
    IF resp.body = "retryinfo" THEN resp.retryDelay ELSE NoDelay

actualModelRequested(model, resp) == model

\* const actualModel = data.model || model
actualModel(model, resp) == IF resp.model # "" THEN resp.model ELSE model

\* One request/response cycle, classified.
callModelWithPrompt(model, resp) ==
    IF resp.status = 0
    THEN Failure(Err("network error", "", 0 - 1), NoRetryAfter)
    ELSE IF resp.status = 429
    THEN IF retryDelayOf(resp) # NoDelay
         THEN Failure(Err("Rate limit exceeded. Retry after seconds", "",
                          delaySeconds(retryDelayOf(resp))),
                      delaySeconds(retryDelayOf(resp)))
         ELSE Failure(Err("Rate limit exceeded. Try again later", model, 0 - 1),
                      NoRetryAfter)
    ELSE IF ~ok(resp)
    THEN IF resp.status = 402 /\ ~includesFree(model)
         THEN Failure(Err("Payment required. Try adding ':free'", model, 0 - 1),
                      NoRetryAfter)
         ELSE Failure(Err("status statusText: responseText", "", resp.status),
                      NoRetryAfter)
    ELSE IF resp.body = "badjson"
    THEN Failure(Err("Failed to parse response", "", 0 - 1), NoRetryAfter)
    ELSE IF resp.body \in {"nochoices", "nomessage"}
    THEN Failure(Err("Invalid response format: Missing choices or message", "",
                     0 - 1), NoRetryAfter)
    ELSE [success |-> TRUE,
          content |-> IF resp.body = "content" THEN "content" ELSE "undefined",
          error |-> NoError,
          retryAfter |-> NoRetryAfter,
          model |-> actualModel(model, resp),
          usage |-> resp.usage]

callModelWithPromptThrowsOnTransportError(model, resp) == resp.status = 0
callModelWithPromptThrowsOnBadJson(model, resp) ==
    resp.status = 200 /\ resp.body = "badjson"

\* Whether a call of callModelWithPrompt completes by throwing: every path of
\* its body is inside try { ... } catch { return {success: false, ...} }.
callModelWithPromptThrows(model, resp) == FALSE

\* ------------------------------------------------------------------- state
VARIABLES
    pc,              \* "idle", "try" (an attempt is pending), "returned", "thrown"
    primaryModel,    \* argument of callModelWithFallbacks
    fallbackModels,  \* argument of callModelWithFallbacks (a sequence)
    provider,        \* environment: backend identifier -> response
    idx,             \* traversal position: 0 = primary, i = i-th fallback
    trace,           \* invocations of callModelWithPrompt made so far, each
                     \* with the seconds slept since the previous one
                     \* (callModelWithFallbacks never calls sleep())
    result,          \* value returned by callModelWithFallbacks
    caught,          \* error bound by the outer catch (the primary's)
    entry,           \* exported function the running script drives
    prev,            \* what the script saw of its completed calls of
                     \* callModelWithFallbacks: their number, and the
                     \* invocations and the outcome of the latest one
    az,              \* one call of analyzeWithOpenRouter (lib/openrouter.js)
    ac,              \* one call of analyzeChanges (lib/prAnalyzer.js)
    run,             \* one run of processPR
    files,           \* the file system under results/: path -> file
    clock,           \* wall clock in milliseconds (new Date())
    saveLog          \* calls of saveResults made directly by a script

orchVars == <<pc, primaryModel, fallbackModels, provider, idx, trace, result,
              caught, prev>>
azVars == <<az, ac>>
prVars == <<run, files, clock, saveLog>>
vars == <<orchVars, entry, azVars, prVars>>

NoResult == Failure(NoError, NoRetryAfter)

\* ------------------------------------------- analyzeWithOpenRouter: state
\* const MODEL_FALLBACKS of lib/openrouter.js (its own list, all ':free')
MODEL_FALLBACKS ==
    <<"microsoft/phi-3-medium-128k-instruct:free",
      "google/gemini-2.5-pro-exp-03-25:free",
      "openai/gpt-3.5-turbo:free",
      "anthropic/claude-3-haiku:free",
      "meta-llama/llama-3-8b-instruct:free",
      "mistralai/mistral-7b-instruct:free">>

AzResp(st, b) == [status |-> st, body |-> b]

\* optionsModel: options.model ("" when the caller gives none); waited: the
\* seconds slept between requests (the function never sleeps).
AzIdle ==
    [pc |-> "idle", optionsModel |-> "", modelsToTry |-> <<>>, i |-> 1,
     requests |-> <<>>, waited |-> 0,
     last |-> AzResp(0, "none"), lastError |-> NoError, value |-> ""]

modelsToTryOfThenFallbacks(m) ==
    IF m # "" THEN <<m>> \o MODEL_FALLBACKS ELSE MODEL_FALLBACKS

\* const modelsToTry = options.model ? [model] : MODEL_FALLBACKS
modelsToTryOf(m) == IF m # "" THEN <<m>> ELSE MODEL_FALLBACKS

\* Responses analyzeWithOpenRouter tells apart. Status 0: fetch() rejects.
\* Bodies of a 200: not JSON; the JSON value null; choices[0].message with
\* or without content; data.message; data.content; choices[0].content; a JSON
\* object with none of these.
AzResponses ==
    {AzResp(0, "none")}
    \cup {AzResp(st, b) : st \in {429, 500}, b \in {"error", "badjson"}}
    \cup {AzResp(200, b) :
              b \in {"badjson", "null", "choices.message",
                     "choices.message.nocontent", "message", "content",
                     "choices.content", "object"}}

\* One iteration of the for loop: the value returned, or the error that the
\* catch clause (or the 429 branch) stores in lastError.
AzReturn(v) == [kind |-> "return", value |-> v, error |-> NoError]
AzError(e) == [kind |-> "error", value |-> "", error |-> e]

analyzeIterationIgnoresStatus(currentModel, resp) ==
    IF resp.status = 0
    THEN AzError(Err("network error", "", 0 - 1))
    ELSE IF resp.body = "badjson"
    THEN AzError(Err("invalid json response body", "", 0 - 1))
    ELSE IF resp.body = "null"
    THEN AzError(Err("Cannot read properties of null", "", 0 - 1))
    ELSE IF resp.body = "choices.message"
    THEN AzReturn("choices[0].message.content")
    ELSE IF resp.body = "choices.message.nocontent"
    THEN AzReturn("undefined")
    ELSE IF resp.body = "message"
    THEN AzReturn("message")
    ELSE IF resp.body = "content"
    THEN AzReturn("content")
    ELSE IF resp.body = "choices.content"
    THEN AzReturn("choices[0].content")
    ELSE AzReturn("Could not extract content from API response. See logs for details.")

analyzeIteration(currentModel, resp) ==
    IF resp.status = 0
    THEN AzError(Err("network error", "", 0 - 1))
    ELSE IF ~ok(resp)
    THEN IF resp.status = 429
         THEN AzError(Err("Rate limit exceeded for", currentModel, 0 - 1))
         ELSE AzError(Err("OpenRouter API error", "", resp.status))
    ELSE IF resp.body = "badjson"
    THEN AzError(Err("invalid json response body", "", 0 - 1))
    ELSE IF resp.body = "null"
    THEN AzError(Err("Cannot read properties of null", "", 0 - 1))
    ELSE IF resp.body = "choices.message"
    THEN AzReturn("choices[0].message.content")
    ELSE IF resp.body = "choices.message.nocontent"
    THEN AzReturn("undefined")
    ELSE IF resp.body = "message"
    THEN AzReturn("message")
    ELSE IF resp.body = "content"
    THEN AzReturn("content")
    ELSE IF resp.body = "choices.content"
    THEN AzReturn("choices[0].content")
    ELSE AzReturn("Could not extract content from API response. See logs for details.")

\* ------------------------------------------------------------ saveResults
\* Names are kept as the sequence of their '-'-separated tokens, a label
\* (the model argument) as the sequence of its '/'-separated segments, each
\* segment as the sequence of its ':'-separated parts:
\*   'a/X:free' is << <<<<"a">>>>, << <<"X">>, <<"free">> >> >>.
Label_aXfree == << << <<"a">> >>, << <<"X">>, <<"free">> >> >>
Label_bX == << << <<"b">> >>, << <<"X">> >> >>
Label_Xcode == << << <<"X", "code">> >> >>
Label_primaryWithFallbacks == << << <<"primary", "with", "fallbacks">> >> >>

Labels == {Label_aXfree, Label_bX, Label_Xcode}
TaskNames == {<<"code", "review">>, <<"review">>}

\* model.split('/').pop().replace(/:.*$/, '')
shortModelName(model) == model[Len(model)][1]

\* `${shortModelName}-${task}.md`
fileNameOf(model, task) == shortModelName(model) \o task

\* path.join(outputDir, fileName)
filePathOf(outputDir, model, task) == <<outputDir, fileNameOf(model, task)>>

Content(text) == [kind |-> "content", text |-> text, short |-> <<>>,
                  error |-> NoError]
ErrorDocument(short, e) == [kind |-> "error", text |-> "", short |-> short,
                            error |-> e]

\* the `content` saveResults builds from its result argument (lines 324-331)
contentOf(model, res) ==
    IF res.success
    THEN Content(res.content)
    ELSE ErrorDocument(shortModelName(model), res.error)

\* fs.writeFile rejects data that is not a string or a buffer: a success
\* object without content hands it undefined.
writeFileThrows(content) == content.kind = "content" /\ content.text = "undefined"

NoFiles == <<>>

Written(fs, p) == p \in DOMAIN fs

\* await fs.writeFile(filePath, content), once it has completed; by names
\* the writer (bookkeeping, not data on disk), writes counts the writes the
\* path has received.
writeFile(fs, p, content, by) ==
    IF Written(fs, p)
    THEN [fs EXCEPT ![p] = [data |-> content, by |-> by, writes |-> @.writes + 1]]
    ELSE fs @@ (p :> [data |-> content, by |-> by, writes |-> 1])

\* Result objects handed to saveResults by the scripts: what
\* callModelWithPrompt returns on a few responses.
SavedResults ==
    {callModelWithPrompt("a/X", r) :
        r \in {Resp(0, "none", NoDelay, "", FALSE),
               Resp(402, "error", NoDelay, "", FALSE),
               Resp(200, "nocontent", NoDelay, "", FALSE),
               Resp(200, "content", NoDelay, "", TRUE)}}

\* ------------------------------------------------- analyzeChanges: state
\* The files argument: an array of file objects; a value without map();
\* an array holding a file without filename (detectLanguage throws).
FilesInputs == {"files", "notAnArray", "noFilename"}

\* files.map(file => ({..., language: detectLanguage(file.filename)}))
formattingThrows(f) == f # "files"

\* pc: "idle", "await" (analyzeChangedFiles is awaited), "returned", "thrown"
AcIdle ==
    [pc |-> "idle", files |-> "files",
     value |-> [success |-> FALSE, summary |-> "", error |-> NoError]]

\* What the awaited body of the try block came to: a thrown error or the
\* analysis text.
AcThrew(e) == [threw |-> TRUE, analysis |-> "", error |-> e]
AcAnalysis(a) == [threw |-> FALSE, analysis |-> a, error |-> NoError]

FailedSummary ==
    "Failed to analyze changes due to an error with the OpenRouter API."

analyzeChangesRethrows(o) ==
    [threw |-> o.threw,
     value |-> [success |-> ~o.threw,
                summary |-> IF o.threw THEN FailedSummary ELSE o.analysis,
                error |-> o.error]]

\* try { ...; return {summary: analysis, success: true} }
\* catch (error) { return {summary: ..., success: false, error: error.message} }
analyzeChanges(o) ==
    [threw |-> FALSE,
     value |-> IF o.threw
               THEN [success |-> FALSE, summary |-> FailedSummary,
                     error |-> o.error]
               ELSE [success |-> TRUE, summary |-> o.analysis,
                     error |-> NoError]]

\* -------------------------------------------------------- processPR: state
\* The three orchestrated tasks of a run and the task names they are saved
\* under.
Tasks == {"review", "schema", "sequence"}
Diagrams == {"schema", "sequence"}

TaskName(t) ==
    IF t = "review" THEN <<"code", "review">>
    ELSE IF t = "schema" THEN <<"mermaid", "schema">>
    ELSE <<"sequence", "diagram">>

NoDir == 0 - 1

\* pc: "idle", "running" (inside the try block), "render" (Promise.all has
\* resolved), "done", "exited" (process.exit(1) of the catch clause).
\* task[t].pc: "wait" (not started), "call" (callModelWithFallbacks awaited),
\* "ensureDir" (saveResults awaits fs.ensureDir), "writeFile" (saveResults
\* awaits fs.writeFile), "done".
\* otherDir: the directory createOutputDir gave to another run of the script.
\* rendered: the diagrams processAndRenderDiagrams has been called for.
RunIdle ==
    [pc |-> "idle", outputDir |-> NoDir, otherDir |-> NoDir, rendered |-> <<>>,
     task |-> [t \in Tasks |-> [pc |-> "wait", response |-> NoResult]]]

\* Responses the provider gives to the requests of a run.
PRResponses ==
    {Resp(0, "none", NoDelay, "", FALSE),
     Resp(429, "retryinfo", MaxDelay, "", FALSE),
     Resp(402, "error", NoDelay, "", FALSE),
     Resp(200, "badjson", NoDelay, "", FALSE),
     Resp(200, "nocontent", NoDelay, "", FALSE),
     Resp(200, "content", NoDelay, "", FALSE)}

\* new Date().toISOString(): the directory name is the time in milliseconds
timestamp(now) == now

FallbackLists == UNION {[1..n -> Models] : n \in 0..MaxFallbacks}

CandidateRotating(i) ==
    IF i = 0
    THEN IF prev.n > 0 /\ Len(fallbackModels) > 0
         THEN fallbackModels[1] ELSE primaryModel
    ELSE fallbackModels[i]

\* [primary] ++ fallbacks, indexed from 0
Candidate(i) == IF i = 0 THEN primaryModel ELSE fallbackModels[i]
N == Len(fallbackModels)

Init ==
    /\ pc = "idle"
    /\ primaryModel = "a/X"
    /\ fallbackModels = <<>>
    /\ provider = [m \in Models |-> Resp(0, "none", NoDelay, "", FALSE)]
    /\ idx = 0
    /\ trace = <<>>
    /\ result = NoResult
    /\ caught = NoError
    /\ entry = "none"
    /\ prev = [n |-> 0, trace |-> <<>>, result |-> NoResult, pc |-> "idle"]
    /\ az = AzIdle
    /\ ac = AcIdle
    /\ run = RunIdle
    /\ files = NoFiles
    /\ clock = 0
    /\ saveLog = <<>>

\* A caller invokes callModelWithFallbacks(primary, fallbacks, ...).
Start ==
    /\ entry = "none"
    /\ entry' = "callModelWithFallbacks"
    /\ pc = "idle"
    /\ \E p \in Models, f \in FallbackLists, prov \in [Models -> Responses] :
          /\ primaryModel' = p
          /\ fallbackModels' = f
          /\ provider' = prov
    /\ pc' = "try"
    /\ idx' = 0
    /\ trace' = <<>>
    /\ UNCHANGED <<result, caught, prev, azVars, prVars>>

EntersCatchAlways(threw, r) == TRUE
EntersCatchOnSuccess(threw, r) == threw \/ r.success
EntersCatchOnFailure(threw, r) == threw \/ ~r.success

\* try { return await callModelWithPrompt(...) } catch (...) { ... }: the
\* catch clause runs exactly when the awaited call threw; otherwise its value,
\* whatever its success flag, is returned.
EntersCatch(threw, r) == threw

\* One awaited call of callModelWithPrompt on the current candidate and the
\* control flow that follows it in callModelWithFallbacks.
Attempt ==
    /\ pc = "try"
    /\ LET m == Candidate(idx)
           r == callModelWithPrompt(m, provider[m])
           threw == callModelWithPromptThrows(m, provider[m])
       IN /\ trace' = Append(trace, [pos |-> idx, model |-> m, waited |-> 0,
                                      outcome |-> r])
          /\ IF ~EntersCatch(threw, r)
             THEN /\ pc' = "returned"
                  /\ result' = r
                  /\ UNCHANGED <<idx, caught>>
             ELSE /\ caught' = IF idx = 0 THEN r.error ELSE caught
                  /\ IF idx < N
                     THEN /\ pc' = "try"
                          /\ idx' = idx + 1
                          /\ UNCHANGED result
                     ELSE /\ pc' = "thrown"
                          /\ result' = Failure(
                                 Err("All models failed. Original error",
                                     "", 0 - 1), NoRetryAfter)
                          /\ UNCHANGED idx
    /\ UNCHANGED <<primaryModel, fallbackModels, provider, entry, prev,
                   azVars, prVars>>

\* The awaited call completes: the script holds its outcome.
Finish ==
    /\ pc \in {"returned", "thrown"}
    /\ prev' = [n |-> prev.n + 1, trace |-> trace, result |-> result, pc |-> pc]
    /\ pc' = "idle"
    /\ trace' = <<>>
    /\ UNCHANGED <<primaryModel, fallbackModels, provider, idx, result,
                   caught, entry, azVars, prVars>>

\* The script calls callModelWithFallbacks again with the same primary and
\* fallbacks, against backends that answer as before.
Repeat ==
    /\ entry = "callModelWithFallbacks"
    /\ pc = "idle"
    /\ prev.n >= 1
    /\ prev.n < MaxCalls
    /\ pc' = "try"
    /\ idx' = 0
    /\ trace' = <<>>
    /\ UNCHANGED <<primaryModel, fallbackModels, provider, result, caught,
                   entry, prev, azVars, prVars>>

\* ------------------------------------------------------- processPR: actions
\* callModelWithFallbacks as one awaited call: the traversal of Attempt from
\* candidate i of <<primary>> \o fallbacks, against backends answering prov.
RECURSIVE attemptFrom(_, _, _)
attemptFrom(i, candidates, prov) ==
    LET m == candidates[i]
        r == callModelWithPrompt(m, prov[m])
        threw == callModelWithPromptThrows(m, prov[m])
    IN IF ~EntersCatch(threw, r)
       THEN [threw |-> FALSE, value |-> r]
       ELSE IF i < Len(candidates)
       THEN attemptFrom(i + 1, candidates, prov)
       ELSE [threw |-> TRUE,
             value |-> Failure(Err("All models failed. Original error", "",
                                   0 - 1), NoRetryAfter)]

callModelWithFallbacks(primary, fallbacks, prov) ==
    attemptFrom(1, <<primary>> \o fallbacks, prov)

\* Every backend of the registry gives the response resp.
Answering(resp) ==
    [m \in {PRIMARY} \cup {FALLBACKS[i] : i \in 1..Len(FALLBACKS)} |-> resp]

PRPath(t) == filePathOf(run.outputDir, Label_primaryWithFallbacks, TaskName(t))

\* processPR is called: createOutputDir() names the directory after the
\* current time, and the code-review orchestration is awaited.
PRStart ==
    /\ entry = "none"
    /\ entry' = "processPR"
    /\ run' = [RunIdle EXCEPT !.pc = "running",
                              !.outputDir = timestamp(clock),
                              !.task["review"].pc = "call"]
    /\ UNCHANGED <<orchVars, azVars, files, clock, saveLog>>

\* Time passes.
Tick ==
    /\ entry = "processPR"
    /\ clock < MaxClock
    /\ clock' = clock + 1
    /\ UNCHANGED <<orchVars, entry, azVars, run, files, saveLog>>

\* Another run of the script, from the same checkout, calls createOutputDir.
OtherRunCreateOutputDir ==
    /\ entry = "processPR"
    /\ run.otherDir = NoDir
    /\ run' = [run EXCEPT !.otherDir = timestamp(clock)]
    /\ UNCHANGED <<orchVars, entry, azVars, files, clock, saveLog>>

\* The awaited callModelWithFallbacks of task t completes; saveResults is
\* called and awaits fs.ensureDir. A throw goes to the catch clause of
\* processPR, which ends the process.
PRCall(t) ==
    /\ run.pc = "running"
    /\ run.task[t].pc = "call"
    /\ \E resp \in PRResponses :
          LET c == callModelWithFallbacks(PRIMARY, FALLBACKS, Answering(resp))
          IN IF c.threw
             THEN run' = [run EXCEPT !.pc = "exited"]
             ELSE run' = [run EXCEPT !.task[t] =
                             [pc |-> "ensureDir", response |-> c.value]]
    /\ UNCHANGED <<orchVars, entry, azVars, files, clock, saveLog>>

\* fs.ensureDir of saveResults resolves and fs.writeFile is called: it
\* rejects data that is not a string, and the rejection reaches the catch
\* clause of processPR (process.exit(1)); otherwise the write is under way.
PREnsureDir(t) ==
    /\ run.pc = "running"
    /\ run.task[t].pc = "ensureDir"
    /\ IF writeFileThrows(contentOf(Label_primaryWithFallbacks,
                                    run.task[t].response))
       THEN run' = [run EXCEPT !.pc = "exited"]
       ELSE run' = [run EXCEPT !.task[t].pc = "writeFile"]
    /\ UNCHANGED <<orchVars, entry, azVars, files, clock, saveLog>>

PromiseRaceResolved(t) == TRUE

\* await Promise.all([...]) resolves with the completion of diagram task t
\* when the other diagram task has already returned.
PromiseAllResolved(t) == \A u \in Diagrams \ {t} : run.task[u].pc = "done"

\* fs.writeFile of saveResults completes and saveResults returns. After the
\* code review the comment is posted and Promise.all starts both diagram
\* tasks; when both diagram tasks have returned, Promise.all resolves.
PRWriteFile(t) ==
    /\ run.pc = "running"
    /\ run.task[t].pc = "writeFile"
    /\ files' = writeFile(files, PRPath(t),
                          contentOf(Label_primaryWithFallbacks,
                                    run.task[t].response), t)
    /\ IF t = "review"
       THEN run' = [run EXCEPT !.task["review"].pc = "done",
                               !.task["schema"].pc = "call",
                               !.task["sequence"].pc = "call"]
       ELSE IF PromiseAllResolved(t)
       THEN run' = [run EXCEPT !.task[t].pc = "done", !.pc = "render"]
       ELSE run' = [run EXCEPT !.task[t].pc = "done"]
    /\ UNCHANGED <<orchVars, entry, azVars, clock, saveLog>>

\* Step 3: processAndRenderDiagrams is called and awaited, for the schema
\* response and then for the sequence response.
RenderOrder == <<"schema", "sequence">>

PRProcessAndRenderDiagrams ==
    /\ run.pc = "render"
    /\ Len(run.rendered) < Len(RenderOrder)
    /\ run' = [run EXCEPT !.rendered =
                   Append(@, RenderOrder[Len(run.rendered) + 1])]
    /\ UNCHANGED <<orchVars, entry, azVars, files, clock, saveLog>>

\* Step 4: both diagrams are processed; the combined comment is posted and
\* processPR returns.
PRRender ==
    /\ run.pc = "render"
    /\ Len(run.rendered) = Len(RenderOrder)
    /\ run' = [run EXCEPT !.pc = "done"]
    /\ UNCHANGED <<orchVars, entry, azVars, files, clock, saveLog>>

\* ----------------------------------------- analyzeWithOpenRouter: actions
\* A caller invokes analyzeWithOpenRouter(content, options); m is
\* options.model ("" when the option is not given).
AnalyzeStart ==
    /\ entry = "none"
    /\ entry' = "analyzeWithOpenRouter"
    /\ \E m \in {""} \cup Models :
          az' = [AzIdle EXCEPT !.pc = "try", !.optionsModel = m,
                               !.modelsToTry = modelsToTryOf(m)]
    /\ UNCHANGED <<orchVars, ac, prVars>>

\* One iteration of the loop over modelsToTry, and, after the last one, the
\* throw of lines 88-89.
AnalyzeAttempt ==
    /\ az.pc = "try"
    /\ \E resp \in AzResponses :
          LET currentModel == az.modelsToTry[az.i]
              o == analyzeIteration(currentModel, resp)
              asked == [az EXCEPT !.requests = Append(az.requests, currentModel),
                                  !.last = resp]
          IN IF o.kind = "return"
             THEN az' = [asked EXCEPT !.pc = "returned", !.value = o.value]
             ELSE IF az.i < Len(az.modelsToTry)
             THEN az' = [asked EXCEPT !.lastError = o.error, !.i = az.i + 1]
             ELSE az' = [asked EXCEPT !.lastError = o.error, !.pc = "thrown"]
    /\ UNCHANGED <<orchVars, entry, ac, prVars>>

\* ------------------------------------------------ analyzeChanges: actions
\* A caller invokes analyzeChanges(files). Formatting the files may throw
\* into the catch clause; otherwise analyzeChangedFiles calls
\* analyzeWithOpenRouter(content), without options, and is awaited.
AnalyzeChangesStart ==
    /\ entry = "none"
    /\ entry' = "analyzeChanges"
    /\ \E f \in FilesInputs :
          IF formattingThrows(f)
          THEN LET r == analyzeChanges(AcThrew(Err("TypeError", f, 0 - 1)))
               IN /\ ac' = [pc |-> IF r.threw THEN "thrown" ELSE "returned",
                            files |-> f, value |-> r.value]
                  /\ UNCHANGED az
          ELSE /\ ac' = [AcIdle EXCEPT !.pc = "await", !.files = f]
               /\ az' = [AzIdle EXCEPT !.pc = "try",
                                       !.modelsToTry = modelsToTryOf("")]
    /\ UNCHANGED <<orchVars, prVars>>

\* The awaited analyzeChangedFiles completes, by a value or by the throw of
\* analyzeWithOpenRouter, and analyzeChanges returns.
AnalyzeChangesReturn ==
    /\ ac.pc = "await"
    /\ az.pc \in {"returned", "thrown"}
    /\ LET r == analyzeChanges(IF az.pc = "thrown"
                               THEN AcThrew(az.lastError)
                               ELSE AcAnalysis(az.value))
       IN ac' = [ac EXCEPT !.pc = IF r.threw THEN "thrown" ELSE "returned",
                           !.value = r.value]
    /\ UNCHANGED <<orchVars, entry, az, prVars>>

\* ------------------------------------------------------ saveResults: action
\* A script calls saveResults(model, task, result, outputDir) and awaits it
\* (as test-openrouter.js:38 does); the output directory is the one its
\* createOutputDir() made at time 0.
SaveResults ==
    /\ entry \in {"none", "saveResults"}
    /\ entry' = "saveResults"
    /\ Len(saveLog) < MaxSaves
    /\ \E model \in Labels, task \in TaskNames, res \in SavedResults :
          LET content == contentOf(model, res)
              p == filePathOf(0, model, task)
              threw == writeFileThrows(content)
          IN /\ files' = IF threw THEN files
                         ELSE writeFile(files, p, content, task)
             /\ saveLog' = Append(saveLog,
                    [model |-> model, task |-> task, result |-> res,
                     fileName |-> fileNameOf(model, task), threw |-> threw,
                     before |-> files])
    /\ UNCHANGED <<orchVars, azVars, run, clock>>

Next ==
    \/ Start \/ Attempt \/ Finish \/ Repeat
    \/ AnalyzeStart \/ AnalyzeAttempt
    \/ AnalyzeChangesStart \/ AnalyzeChangesReturn
    \/ SaveResults
    \/ PRStart \/ Tick \/ OtherRunCreateOutputDir
    \/ \E t \in Tasks : PRCall(t) \/ PREnsureDir(t) \/ PRWriteFile(t)
    \/ PRProcessAndRenderDiagrams \/ PRRender

Spec == Init /\ [][Next]_vars

\* ------------------------------------------------- vocabulary of the claims
Done == pc \in {"returned", "thrown"}

\* The orchestration ended without a usable answer.
Exhausted == Done /\ (pc = "thrown" \/ ~result.success)

\* What the invocation of traversal position i returns (or would return).
Outcome(i) == callModelWithPrompt(Candidate(i), provider[Candidate(i)])

RateLimited(i) == provider[Candidate(i)].status = 429
Hinted(o) == ~o.success /\ o.retryAfter # NoRetryAfter
HardAt(i) == ~Outcome(i).success /\ ~RateLimited(i)

InvokedPositions == {trace[k].pos : k \in 1..Len(trace)}
TimesInvoked(i) == Cardinality({k \in 1..Len(trace) : trace[k].pos = i})

\* trace[k] is the first invocation of its position
FirstAttempt(k) == k = 1 \/ trace[k - 1].pos # trace[k].pos

\* C1: if every candidate answers with a hard failure, one orchestration over
\* N fallbacks makes exactly N+1 invocations and ends exhausted.
C1_AllHardTriesEveryBackend ==
    (Done /\ \A i \in 0..N : HardAt(i)) => (Len(trace) = N + 1 /\ Exhausted)

\* C2: primary fails hard, first fallback would answer with content: the
\* fallback is invoked next, with no wait, and its success is the result.
C2_HardFailureFallsBack ==
    (Done /\ N >= 1 /\ HardAt(0) /\ Outcome(1).success)
        => /\ Len(trace) = 2
           /\ trace[2].pos = 1
           /\ trace[2].waited = 0
           /\ pc = "returned"
           /\ result = Outcome(1)

\* C3: after a 429 without retry hint the next invocation is of the next
\* candidate, made without waiting.
C3_UnhintedRateLimitAdvances ==
    Done => \A k \in 1..Len(trace) :
        (/\ provider[trace[k].model].status = 429
         /\ ~Hinted(trace[k].outcome)
         /\ trace[k].pos < N)
            => /\ k < Len(trace)
               /\ trace[k + 1].pos = trace[k].pos + 1
               /\ trace[k + 1].waited = 0

\* C4: after a 429 with a hint of D seconds the same candidate is invoked
\* again, once, after a wait of at least D seconds, before any other one.
C4_HintedRateLimitRetriesOnce ==
    Done => \A k \in 1..Len(trace) :
        (FirstAttempt(k) /\ Hinted(trace[k].outcome))
            => /\ k < Len(trace)
               /\ trace[k + 1].pos = trace[k].pos
               /\ trace[k + 1].waited >= trace[k].outcome.retryAfter
               /\ (k + 2 <= Len(trace) => trace[k + 2].pos # trace[k].pos)

C6_PrimarySuccessNoFallback ==
    (Len(trace) >= 1 /\ trace[1].outcome.success)
        => /\ pc = "returned"
           /\ result = trace[1].outcome
           /\ Len(trace) = 1
           /\ trace[1].pos = 0

C6_Witness ==
    /\ pc = "returned"
    /\ N >= 1
    /\ trace[1].outcome.success
    /\ result.success

\* C7: the first invocation that returns a success ends the orchestration:
\* nothing is invoked after it, it is the returned result, and no candidate
\* before it in traversal order answers with a success.
C7_FirstSuccessWins ==
    /\ \A k \in 1..Len(trace) :
          trace[k].outcome.success
              => /\ k = Len(trace)
                 /\ pc = "returned"
                 /\ result = trace[k].outcome
                 /\ \A i \in 0..(trace[k].pos - 1) : ~Outcome(i).success
    /\ (pc = "returned" /\ result.success)
          => \E k \in 1..Len(trace) : trace[k].outcome = result

\* A success was returned although a later candidate would have answered with
\* a different success: there is no comparison across backends.
C7_Witness ==
    /\ pc = "returned"
    /\ result.success
    /\ \E i \in 1..N : Outcome(i).success /\ Outcome(i) # result

\* C8: invocations follow [primary] ++ fallbacks without deduplication: each
\* position before which every candidate failed is attempted, in list order.
C8_TraversalOrderNoDedup ==
    Done => /\ \A i \in 0..N :
                 (\A j \in 0..(i - 1) : ~Outcome(j).success)
                     => \E k \in 1..Len(trace) :
                            trace[k].pos = i /\ trace[k].model = Candidate(i)
            /\ \A k \in 1..Len(trace), l \in 1..Len(trace) :
                 k < l => trace[k].pos <= trace[l].pos

\* C9: an exhausted orchestration has invoked every position of the combined
\* list at least once.
C9_ExhaustedTriedAll ==
    Exhausted => \A i \in 0..N : i \in InvokedPositions

\* C10: when all candidates fail, the exhausted outcome carries the failure
\* reason of the last candidate in traversal order.
C10_ExhaustedCarriesLastReason ==
    (Exhausted /\ \A i \in 0..N : ~Outcome(i).success)
        => result.error = Outcome(N).error

\* The response each recorded invocation received.
Received(k) == provider[trace[k].model]

\* C12 (as amended): with an empty fallback list the primary is invoked, once,
\* and a 402 answer ends the orchestration exhausted; the reason carries the
\* free-tier suffix hint exactly when the primary's identifier lacks ':free'.
C12_EmptyListPaymentRequired ==
    (Done /\ N = 0 /\ provider[primaryModel].status = 402)
        => /\ Exhausted
           /\ pc = "returned"
           /\ Len(trace) = 1
           /\ trace[1].model = primaryModel
           /\ (result.error.msg = "Payment required. Try adding ':free'"
                  <=> primaryModel \notin FreeModels)

C12_Witness ==
    /\ pc = "returned"
    /\ N = 0
    /\ provider[primaryModel].status = 402
    /\ primaryModel \in FreeModels
    /\ result.error.n = 402

\* C12 as stated: the exhausted reason mentions the hint for every primary.
C12_Original ==
    (Done /\ N = 0 /\ provider[primaryModel].status = 402)
        => /\ Exhausted
           /\ Len(trace) = 1
           /\ result.error.msg = "Payment required. Try adding ':free'"

C19_RetryAfterIsProviderDelay ==
    \A k \in 1..Len(trace) :
        Received(k).status = 429
            => /\ trace[k].outcome.retryAfter # NoRetryAfter
                     => Received(k).body = "retryinfo"
               /\ (Received(k).body = "retryinfo" /\ Received(k).retryDelay >= 0)
                     => trace[k].outcome.retryAfter = Received(k).retryDelay

\* C20 (as amended): a 402 yields a failure without retryAfter; its reason
\* suggests the ':free' suffix exactly when the identifier lacks it, and is
\* the generic status/body reason otherwise.
C20_PaymentRequiredHint ==
    \A k \in 1..Len(trace) :
        Received(k).status = 402
            => /\ ~trace[k].outcome.success
               /\ trace[k].outcome.retryAfter = NoRetryAfter
               /\ IF trace[k].model \in FreeModels
                  THEN trace[k].outcome.error
                           = Err("status statusText: responseText", "", 402)
                  ELSE trace[k].outcome.error
                           = Err("Payment required. Try adding ':free'",
                                 trace[k].model, 0 - 1)

C20_Witness ==
    \E k \in 1..Len(trace) :
        /\ Received(k).status = 402
        /\ trace[k].model \in FreeModels
        /\ ~trace[k].outcome.success

\* C20 as stated: the hint is given whatever the identifier.
C20_Original ==
    \A k \in 1..Len(trace) :
        Received(k).status = 402
            => /\ ~trace[k].outcome.success
               /\ trace[k].outcome.retryAfter = NoRetryAfter
               /\ trace[k].outcome.error.msg
                      = "Payment required. Try adding ':free'"

C15_SaveWritesContentOrError ==
    \A k \in 1..Len(saveLog) :
        LET c == saveLog[k]
            p == <<0, c.fileName>>
        IN /\ ~c.threw
           /\ k = Len(saveLog)
                 => /\ Written(files, p)
                    /\ DOMAIN files \ {p} = DOMAIN c.before \ {p}
                    /\ IF c.result.success
                       THEN files[p].data = Content(c.result.content)
                       ELSE /\ files[p].data.kind = "error"
                            /\ files[p].data.error = c.result.error

\* C16: two calls of saveResults compute the same file name only if they
\* have the same label and the same task name.
C16_OneFilePerLabelAndTask ==
    \A j \in 1..Len(saveLog), k \in 1..Len(saveLog) :
        saveLog[j].fileName = saveLog[k].fileName
            => /\ saveLog[j].model = saveLog[k].model
               /\ saveLog[j].task = saveLog[k].task

PREnded == run.pc \in {"render", "done", "exited"}
DiagramsStarted == \A t \in Diagrams : run.task[t].pc # "wait"
Returned(t) == run.task[t].pc \in {"ensureDir", "writeFile", "done"}

\* C13: the concurrent schema and sequence tasks both complete, each has
\* written its own file with its own result, and no file of the run is ever
\* written by a task other than the one it is named after.
C13_ParallelDiagramsNoCrossWrite ==
    /\ \A t \in Tasks :
          Written(files, PRPath(t)) => files[PRPath(t)].by = t
    /\ (PREnded /\ DiagramsStarted)
          => \A t \in Diagrams :
                /\ run.task[t].pc = "done"
                /\ Written(files, PRPath(t))
                /\ files[PRPath(t)].data
                      = contentOf(Label_primaryWithFallbacks,
                                  run.task[t].response)

\* C14: when the run has ended, every task whose orchestration returned a
\* failure has its error document, holding the failure reason, on disk, and
\* a failed code review was followed by the diagram tasks.
C14_FailedTaskStillPersisted ==
    PREnded => \A t \in Tasks :
        (Returned(t) /\ ~run.task[t].response.success)
            => /\ Written(files, PRPath(t))
               /\ files[PRPath(t)].data.kind = "error"
               /\ files[PRPath(t)].data.error = run.task[t].response.error
               /\ t = "review" => DiagramsStarted

\* C17: two runs get distinct directories from createOutputDir, and within a
\* run of processPR no file is written more than once.
C17_NeverUpdatedInPlace ==
    /\ (run.outputDir # NoDir /\ run.otherDir # NoDir)
          => run.outputDir # run.otherDir
    /\ entry = "processPR" => \A p \in DOMAIN files : files[p].writes <= 1

\* ------------------------------------------ callModelWithPrompt's outcomes
\* C21: a 200 whose JSON body has no choices, no choices[0].message or a
\* message without content yields a failure; no success lacks its content.
C21_MissingContentIsFailure ==
    \A k \in 1..Len(trace) :
        /\ (Received(k).status = 200
               /\ Received(k).body \in {"nochoices", "nomessage", "nocontent"})
              => ~trace[k].outcome.success
        /\ trace[k].outcome.success => trace[k].outcome.content # "undefined"

\* C22: a 200 whose body is not JSON yields a failure with neither retryAfter
\* nor content, returned (not thrown) to callModelWithFallbacks, which
\* returns it in turn.
C22_UnparsableBodyIsHardFailure ==
    \A k \in 1..Len(trace) :
        (Received(k).status = 200 /\ Received(k).body = "badjson")
            => /\ ~trace[k].outcome.success
               /\ trace[k].outcome.retryAfter = NoRetryAfter
               /\ trace[k].outcome.content = ""
               /\ trace[k].outcome.error # NoError
               /\ Done => (k = Len(trace) /\ pc = "returned"
                              /\ result = trace[k].outcome)

C22_Witness ==
    /\ pc = "returned"
    /\ N >= 1
    /\ provider[primaryModel] = Resp(200, "badjson", NoDelay, "", FALSE)
    /\ ~result.success

\* The three outcome variants.
IsSuccess(o) ==
    /\ o.success
    /\ o.content # "" /\ o.content # "undefined"
    /\ o.error = NoError
    /\ o.retryAfter = NoRetryAfter
IsRetryable(o) ==
    ~o.success /\ o.content = "" /\ o.error # NoError /\ o.retryAfter >= 0
IsHard(o) ==
    ~o.success /\ o.content = "" /\ o.error # NoError
               /\ o.retryAfter = NoRetryAfter

\* C23: every invocation returns (never throws) a success, a retryable
\* failure or a hard failure, and a transport error gives a hard failure.
C23_ExactlyOneVariant ==
    /\ pc # "thrown"
    /\ \A k \in 1..Len(trace) :
          /\ IsSuccess(trace[k].outcome) \/ IsRetryable(trace[k].outcome)
                \/ IsHard(trace[k].outcome)
          /\ Received(k).status = 0 => IsHard(trace[k].outcome)

\* C24: a success reports the backend the provider names in the response,
\* the requested one when the response names none, and the usage counts of
\* the response.
C24_ReportedModelAndUsage ==
    \A k \in 1..Len(trace) :
        trace[k].outcome.success
            => /\ Received(k).model # ""
                     => trace[k].outcome.model = Received(k).model
               /\ Received(k).model = ""
                     => trace[k].outcome.model = trace[k].model
               /\ trace[k].outcome.usage = Received(k).usage

\* The provider substituted another backend for the requested one.
C24_Witness ==
    \E k \in 1..Len(trace) :
        /\ trace[k].outcome.success
        /\ Received(k).model # ""
        /\ Received(k).model # trace[k].model
        /\ Received(k).usage

AzFailed(resp) == resp.status # 200 \/ resp.body \in {"badjson", "null"}

\* C26: without options.model the requests follow MODEL_FALLBACKS in list
\* order, one per model and with no wait; a 429, another non-OK status or a
\* thrown error moves on to the next model, anything else returns; after the
\* last model has failed its error is thrown.
C26_AnalyzeListOrderAndLastError ==
    az.optionsModel = ""
        => /\ Len(az.requests) <= Len(MODEL_FALLBACKS)
           /\ \A k \in 1..Len(az.requests) : az.requests[k] = MODEL_FALLBACKS[k]
           /\ az.waited = 0
           /\ az.pc = "try" => (/\ az.i = Len(az.requests) + 1
                                /\ az.i <= Len(MODEL_FALLBACKS)
                                /\ az.i > 1 => AzFailed(az.last))
           /\ az.pc = "returned" => az.last.status = 200
           /\ az.pc = "thrown"
                 => /\ az.requests = MODEL_FALLBACKS
                    /\ AzFailed(az.last)
                    /\ az.lastError # NoError
                    /\ az.last.status = 429
                          => az.lastError.about
                                = MODEL_FALLBACKS[Len(MODEL_FALLBACKS)]
                    /\ az.last.status = 500 => az.lastError.n = 500

C26_Witness ==
    /\ az.optionsModel = ""
    /\ az.pc = "thrown"
    /\ az.last.status = 429

\* C27: after a 200 whose body parses as JSON the call has returned, and a
\* body in which no content field is present gives the placeholder text.
C27_ParsableBodyReturnsAtOnce ==
    (az.pc # "idle" /\ az.last.status = 200 /\ az.last.body # "badjson")
        => /\ az.pc = "returned"
           /\ az.last.body \in {"object", "choices.message.nocontent"}
                 => az.value = "Could not extract content from API response. See logs for details."

\* C28: with options.model set only that model is requested, and its failure
\* is thrown to the caller.
C28_RequestedModelOnly ==
    az.optionsModel # ""
        => /\ Len(az.requests) <= 1
           /\ \A k \in 1..Len(az.requests) : az.requests[k] = az.optionsModel
           /\ (Len(az.requests) = 1 /\ AzFailed(az.last))
                 => (az.pc = "thrown" /\ az.lastError # NoError)

C28_Witness ==
    /\ az.optionsModel # ""
    /\ az.pc = "thrown"
    /\ az.requests = <<az.optionsModel>>

\* C29: a diagram orchestration has started only if the code-review result
\* is on disk and its saveResults has returned; processAndRenderDiagrams has
\* been called only if both diagram orchestrations have returned and both
\* results are on disk.
C29_ReviewThenDiagramsThenRender ==
    /\ (\E t \in Diagrams : run.task[t].pc # "wait")
          => /\ run.task["review"].pc = "done"
             /\ Written(files, PRPath("review"))
    /\ run.rendered # <<>>
          => \A t \in Diagrams :
                /\ run.task[t].pc = "done"
                /\ Written(files, PRPath(t))
                /\ files[PRPath(t)].by = t

C29_Witness ==
    /\ run.pc = "done"
    /\ run.rendered = RenderOrder
    /\ \E t \in Diagrams : ~run.task[t].response.success

\* C30: analyzeChanges never throws. When analyzeWithOpenRouter has failed on
\* every model, or formatting the files threw, it returns success false with
\* the fixed summary and the error's message; otherwise success true with
\* the analysis as summary.
C30_AnalyzeChangesNeverThrows ==
    /\ ac.pc # "thrown"
    /\ ac.pc = "returned"
          => IF formattingThrows(ac.files)
             THEN /\ ~ac.value.success
                  /\ ac.value.summary = FailedSummary
                  /\ ac.value.error = Err("TypeError", ac.files, 0 - 1)
                  /\ az.requests = <<>>
             ELSE IF az.pc = "thrown"
             THEN /\ ~ac.value.success
                  /\ ac.value.summary = FailedSummary
                  /\ ac.value.error = az.lastError
                  /\ az.requests = MODEL_FALLBACKS
             ELSE /\ az.pc = "returned"
                  /\ ac.value.success
                  /\ ac.value.summary = az.value
                  /\ ac.value.error = NoError

C30_Witness ==
    /\ ac.pc = "returned"
    /\ az.pc = "thrown"
    /\ ~ac.value.success
    /\ ac.value.error # NoError

====
